---- MODULE Spec2Model ----
(***************************************************************************)
(* Multi-Management Platform backend (src/backend/main.py, schemas.py,     *)
(* database.py): identity resolution, the admin and entitlement guards,    *)
(* the user store, the generic resource store and the activity log.        *)
(*                                                                         *)
(* A MongoDB collection is a set of documents, each with its _id in the    *)
(* field id; ObjectIds are drawn from per-collection counters and are      *)
(* never reused.  A dict (resource data, a query filter) is a set of       *)
(* <<key, value>> pairs with distinct keys.  Every handler is an operator  *)
(* from the database and the request to [status, body, db]: the response   *)
(* and the database the handler leaves.  The action of a handler applies   *)
(* it for every request; a property of responses is stated of the          *)
(* operator, for every request in every reachable state.                   *)
(*                                                                         *)
(* Left out: the timestamps (no guard, filter or update reads them except  *)
(* analytics' "since 1 January"; every document of a run is taken to be    *)
(* created in the current year), the user's name, the fields of a request  *)
(* body that no handler reads (Resource.system, Resource.type,             *)
(* ActivityLog.user_id, QueryParams.sort), and requests the framework or   *)
(* ObjectId() rejects before a handler's first store call (a body that     *)
(* fails validation, an id that is no ObjectId).                           *)
(***************************************************************************)
EXTENDS Integers, Sequences, FiniteSets, TLC

VARIABLES
    db,       \* database.py db: the collections user, resource, activity
    tokens,   \* the access tokens issued so far, all within their 12 hours
    pending,  \* register / create_user requests between lookup and insert
    written   \* history: what the create and update requests served so far wrote

vars == <<db, tokens, pending, written>>

----------------------------------------------------------------------------
\* Bounds of the model

MaxUsers == 1
MaxRes == 1
MaxActivity == 1
MaxSysLen == 2
MaxPage == 1
MaxDataKeys == 1
MaxInFlight == 2

----------------------------------------------------------------------------
\* Request inputs

Emails == {"ann@x.io", "bob@x.io"}
Passwords == {"pw"}
LoginPasswords == Passwords \cup {"wrong"}
\* UserCreate.role is validated against ^(admin|user)$
CreateRoles == {"admin", "user"}
\* UserUpdate.role is any string
UpdateRoles == CreateRoles \cup {"root"}
\* path parameter {system}: any string; "bunker" is not in the catalog
SystemNames == {"school", "bunker"}
TypeNames == {"student", "patient"}
DataKeys == {"name", "age"}
DataVals == {"Ann"}
Actions == {"view"}

DEFAULT_SYSTEMS ==
    << "school", "college", "university", "library", "hostel", "transport", "hospital", "clinic", "pharmacy",
       "patient-record", "doctor-appointment", "inventory", "payroll", "project", "crm", "erp", "accounting",
       "budget", "loan", "banking", "ecommerce-order", "warehouse", "hotel", "restaurant", "tourism", "hr",
       "attendance", "performance", "exam", "finance", "insurance", "gov-records", "public-transport-ticket",
       "electric-bill", "water-supply", "citizen-complaint", "police-case", "court-scheduling", "disaster-response",
       "construction", "real-estate", "manufacturing", "quality-control", "factory-maintenance", "supply-chain",
       "logistics", "shipping" >>

\* Python: x in list
In(x, list) == \E i \in 1..Len(list) : list[i] = x

Elems(list) == {list[i] : i \in 1..Len(list)}

Count(x, list) == Cardinality({i \in 1..Len(list) : list[i] = x})

\* List[str] bodies of bounded length
SystemLists == UNION {[1..n -> SystemNames] : n \in 0..MaxSysLen}

\* Dict[str, Any]: sets of pairs with distinct keys
IsDict(d) == \A p \in d, q \in d : p[1] = q[1] => p = q

DictKeys(d) == {p[1] : p \in d}

\* Python: q.update(f)
DictUpdate(q, f) == {p \in q : p[1] \notin DictKeys(f)} \cup f

DataInputs ==
    {d \in SUBSET (DataKeys \X DataVals) : IsDict(d) /\ Cardinality(d) <= MaxDataKeys}

\* QueryParams.filter: here over the stored fields system and type
FilterInputs ==
    {f \in SUBSET (({"system"} \X SystemNames) \cup ({"type"} \X TypeNames)) : IsDict(f)}

UserCreateInputs ==
    [email : Emails, password : Passwords, role : CreateRoles, systems : SystemLists]

\* UserUpdate after payload.dict(exclude_unset=True) and the "is not None"
\* filter: set names the fields that are left
UserUpdateInputs ==
    {p \in [set : SUBSET {"role", "systems"}, role : UpdateRoles, systems : SystemLists] :
        /\ "role" \notin p.set => p.role = "user"
        /\ "systems" \notin p.set => p.systems = << >>}

QueryInputs == [filter : FilterInputs, skip : 0..MaxPage, limit : 0..MaxPage]

----------------------------------------------------------------------------
\* Credentials: the Authorization header of a request

NoAuth == [kind |-> "none", sub |-> 0, role |-> ""]
\* a Bearer token jwt.decode rejects: a bad signature, malformed, or past its exp
BadToken == [kind |-> "bad", sub |-> 0, role |-> ""]

Creds == {NoAuth, BadToken} \cup tokens

\* create_access_token: the claims sub and role, signed
create_access_token(sub, role) == [kind |-> "jwt", sub |-> sub, role |-> role]

get_password_hash(password) == <<"bcrypt", password>>

verify_password(plain_password, hashed_password) ==
    hashed_password = get_password_hash(plain_password)

----------------------------------------------------------------------------
\* Collections

\* the documents of a collection in natural (insertion) order
RECURSIVE Natural(_)
Natural(docs) ==
    IF docs = {} THEN << >>
    ELSE LET first == CHOOSE d \in docs : \A e \in docs : d.id <= e.id
         IN  <<first>> \o Natural(docs \ {first})

\* collection.find_one: the first match, None (here NoDoc) without one
NoDoc == [id |-> 0]
find_one(docs) == IF docs = {} THEN NoDoc ELSE Natural(docs)[1]

\* cursor.skip(s).limit(l); limit 0 is no limit
Page(list, s, l) ==
    LET rest == SubSeq(list, s + 1, Len(list))
    IN  IF l = 0 THEN rest ELSE SubSeq(rest, 1, IF l < Len(rest) THEN l ELSE Len(rest))

Reversed(list) == [i \in 1..Len(list) |-> list[Len(list) + 1 - i]]

\* a handler's outcome
Result(status, body, d) == [status |-> status, body |-> body, db |-> d]

----------------------------------------------------------------------------
\* Identity resolution and the admin guard

NoUser == [status |-> 401, user |-> NoDoc]

\* a verifier that trusts the token's claims and never looks the subject up
get_current_user_from_claims(d, authorization) ==
    IF authorization.kind = "none" THEN NoUser
    ELSE IF authorization.kind = "bad" THEN NoUser
    ELSE [status |-> 200,
          user   |-> [id |-> authorization.sub, role |-> authorization.role,
                      systems |-> << >>]]

get_current_user(d, authorization) ==
    IF authorization.kind = "none" THEN NoUser
    ELSE IF authorization.kind = "bad" THEN NoUser
    ELSE LET user == find_one({u \in d.user : u.id = authorization.sub})
         IN  IF user.id = 0 THEN NoUser
             ELSE [status |-> 200,
                   user   |-> [user EXCEPT !.role = authorization.role]]

require_admin(d, authorization) ==
    LET auth == get_current_user(d, authorization)
    IN  IF auth.status # 200 THEN auth
        ELSE IF auth.user.role # "admin" THEN [status |-> 403, user |-> NoDoc]
        ELSE auth

\* the check each resource handler and analytics starts with
access_denied(user, system) ==
    user.role # "admin" /\ ~In(system, user.systems)

----------------------------------------------------------------------------
\* Auth endpoints and the admin users CRUD

\* db["user"].find_one({"email": email}) is not None
email_exists(d, email) == find_one({u \in d.user : u.email = email}).id # 0

\* user_doc / payload.dict() with the password hashed, then insert_one
insert_user(d, payload) ==
    [d EXCEPT !.user = @ \cup {[id       |-> d.uid,
                                email    |-> payload.email,
                                password |-> get_password_hash(payload.password),
                                role     |-> payload.role,
                                systems  |-> payload.systems]},
              !.uid = @ + 1]

register(d, payload) ==
    IF email_exists(d, payload.email)
    THEN Result(400, "Email already registered", d)
    ELSE Result(200, create_access_token(d.uid, payload.role), insert_user(d, payload))

login(d, payload) ==
    LET user == find_one({u \in d.user : u.email = payload.email})
    IN  IF user.id = 0 \/ ~verify_password(payload.password, user.password)
        THEN Result(401, "Invalid credentials", d)
        ELSE Result(200, create_access_token(user.id, user.role), d)

\* u.pop("password")
WithoutPassword(u) ==
    [id |-> u.id, email |-> u.email, role |-> u.role, systems |-> u.systems]

list_users(d, authorization) ==
    LET auth == require_admin(d, authorization)
    IN  IF auth.status # 200 THEN Result(auth.status, "denied", d)
        ELSE Result(200, [i \in 1..Len(Natural(d.user)) |->
                              WithoutPassword(Natural(d.user)[i])], d)

create_user(d, payload, authorization) ==
    LET auth == require_admin(d, authorization)
    IN  IF auth.status # 200 THEN Result(auth.status, "denied", d)
        ELSE IF email_exists(d, payload.email)
        THEN Result(400, "Email already exists", d)
        ELSE Result(200, [id |-> d.uid], insert_user(d, payload))

\* {"$set": updates} on one user document
SetFields(u, payload) ==
    [u EXCEPT !.role = IF "role" \in payload.set THEN payload.role ELSE @,
              !.systems = IF "systems" \in payload.set THEN payload.systems ELSE @]

update_user(d, user_id, payload, authorization) ==
    LET auth == require_admin(d, authorization)
        old  == find_one({u \in d.user : u.id = user_id})
    IN  IF auth.status # 200 THEN Result(auth.status, "denied", d)
        ELSE IF old.id = 0 THEN Result(404, "User not found", d)
        ELSE Result(200, [updated |-> TRUE],
                    [d EXCEPT !.user = (@ \ {old}) \cup {SetFields(old, payload)}])

delete_user(d, user_id, authorization) ==
    LET auth == require_admin(d, authorization)
        old  == find_one({u \in d.user : u.id = user_id})
    IN  IF auth.status # 200 THEN Result(auth.status, "denied", d)
        ELSE IF old.id = 0 THEN Result(404, "User not found", d)
        ELSE Result(200, [deleted |-> TRUE], [d EXCEPT !.user = @ \ {old}])

\* {"$addToSet": {field: {"$each": items}}}: each item, in order, is appended
\* unless the array already holds it
RECURSIVE AddToSet(_, _)
AddToSet(list, items) ==
    IF items = << >> THEN list
    ELSE AddToSet(IF In(Head(items), list) THEN list ELSE Append(list, Head(items)),
                  Tail(items))

assign_systems(d, user_id, systems, authorization) ==
    LET auth == require_admin(d, authorization)
        old  == find_one({u \in d.user : u.id = user_id})
    IN  IF auth.status # 200 THEN Result(auth.status, "denied", d)
        ELSE IF old.id = 0 THEN Result(200, [assigned |-> TRUE], d)
        ELSE Result(200, [assigned |-> TRUE],
                    [d EXCEPT !.user = (@ \ {old}) \cup
                        {[old EXCEPT !.systems = AddToSet(@, systems)]}])

----------------------------------------------------------------------------
\* Activity tracking and the systems registry

log_activity(d, payload, authorization) ==
    LET auth == get_current_user(d, authorization)
    IN  IF auth.status # 200 THEN Result(auth.status, "denied", d)
        ELSE Result(200, [logged |-> TRUE],
                    [d EXCEPT !.activity = @ \cup {[id      |-> d.aid,
                                                    user_id |-> auth.user.id,
                                                    action  |-> payload.action]},
                              !.aid = @ + 1])

\* find().sort("created_at", -1).limit(limit)
get_activity(d, limit, authorization) ==
    LET auth == require_admin(d, authorization)
    IN  IF auth.status # 200 THEN Result(auth.status, "denied", d)
        ELSE Result(200, Page(Reversed(Natural(d.activity)), 0, limit), d)

list_systems(d, authorization) ==
    LET auth == get_current_user(d, authorization)
    IN  IF auth.status # 200 THEN Result(auth.status, "denied", d)
        ELSE IF auth.user.role = "admin" THEN Result(200, DEFAULT_SYSTEMS, d)
        ELSE Result(200, SelectSeq(auth.user.systems,
                                   LAMBDA s : In(s, DEFAULT_SYSTEMS)), d)

----------------------------------------------------------------------------
\* Generic CRUD for resources under each system

\* the value a filter key is compared with
Field(doc, key) == IF key = "system" THEN doc.system ELSE doc.type

\* collection.find(q): the documents equal to q on every key of q
Matching(docs, q) == {doc \in docs : \A p \in q : Field(doc, p[1]) = p[2]}

\* a lookup by {"_id": ObjectId(rid)} alone
ScopedByIdOnly(docs, system, rtype, rid) ==
    {doc \in docs : doc.id = rid}

\* {"_id": ObjectId(rid), "system": system, "type": rtype}
Scoped(docs, system, rtype, rid) ==
    {doc \in docs : doc.id = rid /\ doc.system = system /\ doc.type = rtype}

create_resource(d, system, rtype, payload, authorization) ==
    LET auth == get_current_user(d, authorization)
    IN  IF auth.status # 200 THEN Result(auth.status, "denied", d)
        ELSE IF access_denied(auth.user, system)
        THEN Result(403, "Access denied to this system", d)
        ELSE Result(200, [id |-> d.rid],
                    [d EXCEPT !.resource = @ \cup {[id       |-> d.rid,
                                                    system   |-> system,
                                                    type     |-> rtype,
                                                    data     |-> payload.data,
                                                    owner_id |-> auth.user.id]},
                              !.rid = @ + 1])

\* q = {"system": system, "type": rtype}; q.update(params.filter or {})
query_filter(system, rtype, params) ==
    DictUpdate({<<"system", system>>, <<"type", rtype>>}, params.filter)

query_resources(d, system, rtype, params, authorization) ==
    LET auth == get_current_user(d, authorization)
    IN  IF auth.status # 200 THEN Result(auth.status, "denied", d)
        ELSE IF access_denied(auth.user, system)
        THEN Result(403, "Access denied to this system", d)
        ELSE Result(200,
                    Page(Natural(Matching(d.resource, query_filter(system, rtype, params))),
                         params.skip, params.limit),
                    d)

get_resource(d, system, rtype, rid, authorization) ==
    LET auth == get_current_user(d, authorization)
        doc  == find_one(Scoped(d.resource, system, rtype, rid))
    IN  IF auth.status # 200 THEN Result(auth.status, "denied", d)
        ELSE IF access_denied(auth.user, system)
        THEN Result(403, "Access denied to this system", d)
        ELSE IF doc.id = 0 THEN Result(404, "Not found", d)
        ELSE Result(200, doc, d)

\* an update that merges the new keys into the stored data ("$set" of data.<key>)
update_resource_merging(d, system, rtype, rid, payload, authorization) ==
    LET auth == get_current_user(d, authorization)
        doc  == find_one(Scoped(d.resource, system, rtype, rid))
    IN  IF auth.status # 200 THEN Result(auth.status, "denied", d)
        ELSE IF access_denied(auth.user, system)
        THEN Result(403, "Access denied to this system", d)
        ELSE IF doc.id = 0 THEN Result(404, "Not found", d)
        ELSE Result(200, [updated |-> TRUE],
                    [d EXCEPT !.resource = (@ \ {doc}) \cup
                        {[doc EXCEPT !.data = DictUpdate(@, payload.data)]}])

update_resource(d, system, rtype, rid, payload, authorization) ==
    LET auth == get_current_user(d, authorization)
        doc  == find_one(Scoped(d.resource, system, rtype, rid))
    IN  IF auth.status # 200 THEN Result(auth.status, "denied", d)
        ELSE IF access_denied(auth.user, system)
        THEN Result(403, "Access denied to this system", d)
        ELSE IF doc.id = 0 THEN Result(404, "Not found", d)
        ELSE Result(200, [updated |-> TRUE],
                    [d EXCEPT !.resource = (@ \ {doc}) \cup
                        {[doc EXCEPT !.data = payload.data]}])

delete_resource(d, system, rtype, rid, authorization) ==
    LET auth == get_current_user(d, authorization)
        doc  == find_one(Scoped(d.resource, system, rtype, rid))
    IN  IF auth.status # 200 THEN Result(auth.status, "denied", d)
        ELSE IF access_denied(auth.user, system)
        THEN Result(403, "Access denied to this system", d)
        ELSE IF doc.id = 0 THEN Result(404, "Not found", d)
        ELSE Result(200, [deleted |-> TRUE], [d EXCEPT !.resource = @ \ {doc}])

\* $match on system, $group by (month, type) with a count; count_documents
system_analytics(d, system, authorization) ==
    LET auth == get_current_user(d, authorization)
        docs == {doc \in d.resource : doc.system = system}
    IN  IF auth.status # 200 THEN Result(auth.status, "denied", d)
        ELSE IF access_denied(auth.user, system)
        THEN Result(403, "Access denied to this system", d)
        ELSE Result(200,
                    [series |-> {[type  |-> t,
                                  count |-> Cardinality({doc \in docs : doc.type = t})] :
                                    t \in {doc.type : doc \in docs}},
                     total  |-> Cardinality(docs)],
                    d)

health == [ok |-> TRUE]

----------------------------------------------------------------------------
\* The state machine: one action per endpoint, each handler served in one step

Init ==
    /\ db = [user |-> {}, resource |-> {}, activity |-> {},
             uid |-> 1, rid |-> 1, aid |-> 1]
    /\ tokens = {}
    /\ pending = {}
    /\ written = {}

\* path parameters {user_id} and {rid}: the ids issued and one never issued
UserIds == 1..(MaxUsers + 1)
ResourceIds == 1..(MaxRes + 1)

\* the handler's writes are in the store when the response goes out
Serve(r) == db' = r.db

\* the client keeps the token of a 200 response
Issue(r) == tokens' = IF r.status = 200 THEN tokens \cup {r.body} ELSE tokens

Register ==
    \E payload \in UserCreateInputs :
        LET r == register(db, payload)
        IN  /\ r.db.uid <= MaxUsers + 1
            /\ Serve(r) /\ Issue(r)
            /\ UNCHANGED <<pending, written>>

Login ==
    \E payload \in [email : Emails, password : LoginPasswords] :
        LET r == login(db, payload)
        IN  Serve(r) /\ Issue(r) /\ UNCHANGED <<pending, written>>

ListUsers ==
    \E cred \in Creds :
        Serve(list_users(db, cred)) /\ UNCHANGED <<tokens, pending, written>>

CreateUser ==
    \E cred \in Creds, payload \in UserCreateInputs :
        LET r == create_user(db, payload, cred)
        IN  /\ r.db.uid <= MaxUsers + 1
            /\ Serve(r)
            /\ UNCHANGED <<tokens, pending, written>>

UpdateUser ==
    \E cred \in Creds, user_id \in UserIds, payload \in UserUpdateInputs :
        Serve(update_user(db, user_id, payload, cred))
        /\ UNCHANGED <<tokens, pending, written>>

DeleteUser ==
    \E cred \in Creds, user_id \in UserIds :
        Serve(delete_user(db, user_id, cred))
        /\ UNCHANGED <<tokens, pending, written>>

AssignSystems ==
    \E cred \in Creds, user_id \in UserIds, systems \in SystemLists :
        Serve(assign_systems(db, user_id, systems, cred))
        /\ UNCHANGED <<tokens, pending, written>>

LogActivity ==
    \E cred \in Creds, payload \in [action : Actions] :
        LET r == log_activity(db, payload, cred)
        IN  /\ r.db.aid <= MaxActivity + 1
            /\ Serve(r)
            /\ UNCHANGED <<tokens, pending, written>>

GetActivity ==
    \E cred \in Creds, limit \in 0..MaxPage :
        Serve(get_activity(db, limit, cred))
        /\ UNCHANGED <<tokens, pending, written>>

ListSystems ==
    \E cred \in Creds :
        Serve(list_systems(db, cred)) /\ UNCHANGED <<tokens, pending, written>>

CreateResource ==
    \E cred \in Creds, system \in SystemNames, rtype \in TypeNames,
       payload \in [data : DataInputs] :
        LET r == create_resource(db, system, rtype, payload, cred)
        IN  /\ r.db.rid <= MaxRes + 1
            /\ Serve(r)
            /\ written' = IF r.status = 200
                          THEN written \cup {[id       |-> r.body.id,
                                              system   |-> system,
                                              type     |-> rtype,
                                              data     |-> payload.data,
                                              owner_id |-> cred.sub,
                                              updated  |-> FALSE]}
                          ELSE written
            /\ UNCHANGED <<tokens, pending>>

QueryResources ==
    \E cred \in Creds, system \in SystemNames, rtype \in TypeNames,
       params \in QueryInputs :
        Serve(query_resources(db, system, rtype, params, cred))
        /\ UNCHANGED <<tokens, pending, written>>

GetResource ==
    \E cred \in Creds, system \in SystemNames, rtype \in TypeNames, rid \in ResourceIds :
        Serve(get_resource(db, system, rtype, rid, cred))
        /\ UNCHANGED <<tokens, pending, written>>

UpdateResource ==
    \E cred \in Creds, system \in SystemNames, rtype \in TypeNames, rid \in ResourceIds,
       payload \in [data : DataInputs] :
        LET r == update_resource(db, system, rtype, rid, payload, cred)
        IN  /\ Serve(r)
            /\ written' = IF r.status = 200
                          THEN {IF w.id = rid
                                THEN [w EXCEPT !.data = payload.data, !.updated = TRUE]
                                ELSE w : w \in written}
                          ELSE written
            /\ UNCHANGED <<tokens, pending>>

DeleteResource ==
    \E cred \in Creds, system \in SystemNames, rtype \in TypeNames, rid \in ResourceIds :
        LET r == delete_resource(db, system, rtype, rid, cred)
        IN  /\ Serve(r)
            /\ written' = IF r.status = 200 THEN {w \in written : w.id # rid} ELSE written
            /\ UNCHANGED <<tokens, pending>>

SystemAnalytics ==
    \E cred \in Creds, system \in SystemNames :
        Serve(system_analytics(db, system, cred))
        /\ UNCHANGED <<tokens, pending, written>>

Health ==
    health.ok /\ UNCHANGED vars

Next ==
    \/ Register
    \/ Login
    \/ ListUsers
    \/ CreateUser
    \/ UpdateUser
    \/ DeleteUser
    \/ AssignSystems
    \/ LogActivity
    \/ GetActivity
    \/ ListSystems
    \/ CreateResource
    \/ QueryResources
    \/ GetResource
    \/ UpdateResource
    \/ DeleteResource
    \/ SystemAnalytics
    \/ Health

Spec == Init /\ [][Next]_vars

----------------------------------------------------------------------------
\* Requests in flight.  register and create_user make two calls on the store,
\* find_one and insert_one; the store is a MongoDB server shared by every
\* process that serves the application, so the calls of two requests may
\* interleave.  A request that passed its lookup waits in pending.

\* requests admitted to the insert so far
Admitted == (db.uid - 1) + Cardinality(pending)

InFlight(handler, payload) ==
    [n |-> Admitted + 1, handler |-> handler, payload |-> payload]

\* register, line 80-82: the lookup, and the 400 when it finds the email
RegisterLookup ==
    \E payload \in UserCreateInputs :
        /\ Admitted < MaxInFlight
        /\ pending' = IF email_exists(db, payload.email) THEN pending
                      ELSE pending \cup {InFlight("register", payload)}
        /\ UNCHANGED <<db, tokens, written>>

\* register, line 83-94: the insert and the token
RegisterInsert ==
    \E p \in pending :
        /\ p.handler = "register"
        /\ db' = insert_user(db, p.payload)
        /\ tokens' = tokens \cup {create_access_token(db.uid, p.payload.role)}
        /\ pending' = pending \ {p}
        /\ UNCHANGED written

\* create_user, line 116-119: the admin guard, the lookup and its 400
CreateUserLookup ==
    \E cred \in Creds, payload \in UserCreateInputs :
        /\ Admitted < MaxInFlight
        /\ pending' = IF require_admin(db, cred).status # 200
                         \/ email_exists(db, payload.email)
                      THEN pending
                      ELSE pending \cup {InFlight("create_user", payload)}
        /\ UNCHANGED <<db, tokens, written>>

\* create_user, line 120-125: the insert
CreateUserInsert ==
    \E p \in pending :
        /\ p.handler = "create_user"
        /\ db' = insert_user(db, p.payload)
        /\ pending' = pending \ {p}
        /\ UNCHANGED <<tokens, written>>

NextInFlight ==
    \/ RegisterLookup
    \/ RegisterInsert
    \/ CreateUserLookup
    \/ CreateUserInsert
    \/ Login
    \/ DeleteUser

SpecInFlight == Init /\ [][NextInFlight]_vars

----------------------------------------------------------------------------
\* Properties.  A response is what a handler operator yields for a request in
\* the current state, so a property of responses quantifies over requests.

\* the stored user a token was issued to, NoDoc once it is deleted
StoredUser(t) == find_one({u \in db.user : u.id = t.sub})

\* P of the response to every request on /systems/{system}/* and /analytics/{system}
EverySystemOp(cred, system, P(_)) ==
    /\ \A rtype \in TypeNames, payload \in [data : DataInputs] :
          P(create_resource(db, system, rtype, payload, cred))
    /\ \A rtype \in TypeNames, params \in QueryInputs :
          P(query_resources(db, system, rtype, params, cred))
    /\ \A rtype \in TypeNames, rid \in ResourceIds :
          /\ P(get_resource(db, system, rtype, rid, cred))
          /\ P(delete_resource(db, system, rtype, rid, cred))
          /\ \A payload \in [data : DataInputs] :
                P(update_resource(db, system, rtype, rid, payload, cred))
    /\ P(system_analytics(db, system, cred))

\* P of the response to every request on an admin-only endpoint
EveryAdminOp(cred, P(_)) ==
    /\ P(list_users(db, cred))
    /\ \A payload \in UserCreateInputs : P(create_user(db, payload, cred))
    /\ \A user_id \in UserIds :
          /\ P(delete_user(db, user_id, cred))
          /\ \A payload \in UserUpdateInputs : P(update_user(db, user_id, payload, cred))
          /\ \A systems \in SystemLists : P(assign_systems(db, user_id, systems, cred))
    /\ \A limit \in 0..MaxPage : P(get_activity(db, limit, cred))

\* P of the response to every request that requires identity
EveryOp(cred, P(_)) ==
    /\ EveryAdminOp(cred, P)
    /\ \A system \in SystemNames : EverySystemOp(cred, system, P)
    /\ \A payload \in [action : Actions] : P(log_activity(db, payload, cred))
    /\ P(list_systems(db, cred))

\* C1: query(S, T, F, skip, limit) returns only resources stored under system S
\* and type T, whatever the filter F holds, for every caller.
C1_QueryScoped ==
    \A cred \in Creds, system \in SystemNames, rtype \in TypeNames, params \in QueryInputs :
        LET r == query_resources(db, system, rtype, params, cred)
        IN  r.status = 200 =>
                \A i \in 1..Len(r.body) :
                    r.body[i].system = system /\ r.body[i].type = rtype

\* C2: a caller whose stored role is not admin gets Forbidden, with the store
\* left as it was, on every resource operation and analytics of a system that
\* is not in the caller's stored systems.
C2_UnentitledForbidden ==
    \A t \in tokens :
        LET u == StoredUser(t)
        IN  (u.id # 0 /\ u.role # "admin") =>
                \A system \in SystemNames :
                    ~In(system, u.systems) =>
                        EverySystemOp(t, system, LAMBDA r : r.status = 403 /\ r.db = db)

\* C3: the guards use the stored role: a token issued to a user while admin,
\* whose stored role is user by now, is denied with Forbidden on every
\* admin-only endpoint and gets no admin bypass on /systems/S/*.
C3_StoredRoleGoverns ==
    \A t \in tokens :
        LET u == StoredUser(t)
        IN  (u.id # 0 /\ t.role = "admin" /\ u.role = "user") =>
                /\ EveryAdminOp(t, LAMBDA r : r.status = 403)
                /\ \A system \in SystemNames :
                      ~In(system, u.systems) =>
                          EverySystemOp(t, system, LAMBDA r : r.status = 403)

\* C4: no two stored users have the same email, under any interleaving of the
\* lookups and inserts of register and create_user requests.
C4_EmailUnique ==
    \A u \in db.user, v \in db.user : u.email = v.email => u.id = v.id

\* C5: every system on which some resource operation of a non-admin caller is
\* allowed is in the catalog DEFAULT_SYSTEMS and in the caller's stored systems.
C5_AllowedInCatalog ==
    \A t \in tokens :
        LET u == StoredUser(t)
        IN  (u.id # 0 /\ u.role # "admin") =>
                \A system \in SystemNames :
                    \/ In(system, DEFAULT_SYSTEMS) /\ In(system, u.systems)
                    \/ EverySystemOp(t, system, LAMBDA r : r.status = 403)

\* C6: for every resource created and not deleted, get under its scope returns
\* the data of the most recent successful create or update of that id, and the
\* system, type and owner_id of its creation.
C6_DataRoundTrip ==
    \A w \in written, cred \in Creds :
        LET g == get_resource(db, w.system, w.type, w.id, cred)
        IN  g.status \notin {401, 403} =>
                /\ g.status = 200
                /\ g.body.data = w.data
                /\ g.body.system = w.system
                /\ g.body.type = w.type
                /\ g.body.owner_id = w.owner_id

\* C6 witness: a resource that was updated is read back by an entitled caller.
C6_Witness ==
    \E w \in written, cred \in Creds :
        /\ w.updated
        /\ w.data # {}
        /\ get_resource(db, w.system, w.type, w.id, cred).status = 200

\* C7: after assign_systems(id, L) the user's systems holds every element of L
\* exactly once and every system held before, and a second assign_systems(id, L)
\* changes nothing.
C7_AssignSetUnion ==
    \A t \in tokens, u \in db.user, systems \in SystemLists :
        LET r == assign_systems(db, u.id, systems, t)
            v == find_one({x \in r.db.user : x.id = u.id})
        IN  r.status = 200 =>
                /\ \A s \in Elems(systems) : Count(s, v.systems) = 1
                /\ \A s \in Elems(u.systems) : In(s, v.systems)
                /\ assign_systems(r.db, u.id, systems, t).db = r.db

\* C8: get, update and delete of id i under a scope other than the one i is
\* stored under end in NotFound for an entitled caller, exactly as for an id
\* that exists nowhere, and leave the store unchanged.
C8_IdScoped ==
    \A doc \in db.resource, cred \in Creds, system \in SystemNames, rtype \in TypeNames :
        (<<system, rtype>> # <<doc.system, doc.type>>) =>
            /\ LET g == get_resource(db, system, rtype, doc.id, cred)
               IN  g.status \notin {401, 403} =>
                       /\ g.status = 404
                       /\ g = get_resource(db, system, rtype, db.rid, cred)
                       /\ g.db = db
            /\ LET d == delete_resource(db, system, rtype, doc.id, cred)
               IN  d.status \notin {401, 403} =>
                       /\ d.status = 404
                       /\ d = delete_resource(db, system, rtype, db.rid, cred)
                       /\ d.db = db
            /\ \A payload \in [data : DataInputs] :
                  LET p == update_resource(db, system, rtype, doc.id, payload, cred)
                  IN  p.status \notin {401, 403} =>
                          /\ p.status = 404
                          /\ p = update_resource(db, system, rtype, db.rid, payload, cred)
                          /\ p.db = db

\* C8 witness: an entitled non-admin caller addresses a stored resource under
\* another type of a system and under another system.
C8_Witness ==
    \E doc \in db.resource, t \in tokens, system \in SystemNames, rtype \in TypeNames :
        /\ t.role = "user"
        /\ system # doc.system
        /\ rtype # doc.type
        /\ get_resource(db, doc.system, doc.type, doc.id, t).status = 200
        /\ get_resource(db, doc.system, rtype, doc.id, t).status = 404
        /\ get_resource(db, system, doc.type, doc.id, t).status = 404

\* C9: every stored user's role is admin or user.
C9_RoleEnum ==
    \A u \in db.user : u.role \in {"admin", "user"}

\* C10: once the user a token was issued to is deleted, every request that
\* requires identity and presents the token is rejected as unauthenticated
\* and changes nothing in the user, resource or activity stores.
C10_DeletedUserRejected ==
    \A t \in tokens :
        StoredUser(t).id = 0 =>
            EveryOp(t, LAMBDA r : r.status = 401 /\ r.db = db)

\* C10 witness: an admin token outlives its user while a resource is in the store.
C10_Witness ==
    \E t \in tokens :
        /\ StoredUser(t).id = 0
        /\ t.role = "admin"
        /\ db.resource # {}
        /\ list_users(db, t).status = 401

====
